---------------------------- MODULE Spec2Model ----------------------------
(***************************************************************************)
(* Counting kernel of GeneralNuclear/Counting.py and the decay functions   *)
(* it rests on:                                                            *)
(*   decay, activity, get_decay_const (GeneralNuclear/BasicNuclearCalcs.py)*)
(*   find_best_fit, ge_peakcounts, ge_peakfit, get_peak_windows,           *)
(*   foil_count_time, optimal_count_plan (GeneralNuclear/Counting.py)      *)
(*   red_chisq (DataAnalysis/Stats.py)                                     *)
(*                                                                         *)
(* Six specifications share the variables: Spec runs optimal_count_plan,   *)
(* SpecSolver foil_count_time alone, SpecWindows get_peak_windows,         *)
(* SpecDecay the decay functions, SpecPeak ge_peakfit and SpecFit          *)
(* find_best_fit; the variables of the functions a specification does not  *)
(* run stay idle.                                                          *)
(*                                                                         *)
(* Number representation.  The source computes in binary floating point.   *)
(* Here                                                                    *)
(*   - times are whole seconds in Spec and SpecDecay and whole ticks       *)
(*     (1/Ticks s) in SpecSolver; channels and counts are integers;        *)
(*   - rates (counts/s), activities (Bq), relStat, the absolute            *)
(*     efficiency, peak areas, uncertainties and chi-squares are fixed     *)
(*     point, in units of 1/Scale; a positive time is rounded up to the    *)
(*     next second, so it is never 0;                                      *)
(*   - the activities of the caller's table, which optimal_count_plan      *)
(*     multiplies by 3.7E10 or 1E-6*3.7E10, are decimal floats             *)
(*     [m |-> mantissa, e |-> exponent], value m * 10^e;                   *)
(*   - exp(-ln2*t/halfLife) is exact at whole half-lives and linear in     *)
(*     between, and quad() is Simpson's rule on [0, tf];                   *)
(*   - gamma(p5)*gamma(4-p5) is tabulated at multiples of 1/2;             *)
(*   - curve_fit and the gaussian fit of peakutils are library routines:   *)
(*     they return any value of a set of results, or raise.                *)
(***************************************************************************)
EXTENDS Integers, Sequences, FiniteSets

\* ------------------------------------------------------------------------
\* Bounds of the model
\* ------------------------------------------------------------------------

\* rows (reaction channels) of the caller's table
NumChannels == 3

\* fixed-point denominator of rates, activities, relStat and efficiency
Scale == 100

\* ticks in a second, for the times of foil_count_time run on its own
Ticks == 4

\* peaks in the longest list passed to get_peak_windows
MaxPeaks == 3

\* functions in the longest list passed to find_best_fit
MaxFuncs == 3

\* ------------------------------------------------------------------------
\* Program constants and their stand-ins
\* ------------------------------------------------------------------------

\* the sentinel 1E99 of foil_count_time and optimal_count_plan, in seconds
Sentinel == 120000000

\* np.inf, the initial totalTime; also the float a diverged tf becomes
Inf == 2000000000

\* default of foil_count_time's precision argument
Precision == 30

\* initial trial count time tf and initial diff of foil_count_time
InitTf == 1
InitDiff == 1000

\* mantissa and decimal exponent of 3.7E10 (Ci -> Bq) and of 1E-6*3.7E10
CiMant == 37
CiExp == 9
MicroExp == 3

\* log(2), in millionths
Ln2 == 693147

\* (2*np.pi)**0.5, in hundredths
Sqrt2Pi == 251

\* freeParams of the reduced chi-square of ge_peakfit
FreeParams == 9

Channels == 1..NumChannels

\* ------------------------------------------------------------------------
\* Arithmetic helpers
\* ------------------------------------------------------------------------

RECURSIVE Pow(_, _)
Pow(b, k) == IF k = 0 THEN 1 ELSE b * Pow(b, k - 1)

RECURSIVE SqrtSearch(_, _, _)
SqrtSearch(n, lo, hi) ==
    IF lo >= hi THEN lo
    ELSE LET mid == (lo + hi + 1) \div 2
         IN IF mid * mid <= n THEN SqrtSearch(n, mid, hi)
                              ELSE SqrtSearch(n, lo, mid - 1)

\* floor of the square root (math.sqrt on fixed-point operands)
ISqrt(n) == SqrtSearch(n, 0, IF n < 46340 THEN n ELSE 46340)

\* sqrt of a fixed-point value, as a fixed-point value
FixSqrt(x) == ISqrt(x * Scale)

\* ceiling of a / b for a >= 0, b > 0
CeilDiv(a, b) == (a + b - 1) \div b

\* a decimal float of the caller's table as a fixed-point number
ToFix(v) ==
    IF v.e >= 0 THEN v.m * Pow(10, v.e) * Scale
                ELSE (v.m * Scale) \div Pow(10, 0 - v.e)

\* product of a decimal float and the decimal float mant * 10^exp
MulDec(v, mant, exp) == [m |-> v.m * mant, e |-> v.e + exp]

\* ------------------------------------------------------------------------
\* BasicNuclearCalcs: decay, get_decay_const, activity
\* ------------------------------------------------------------------------

\* variant of DecayAsserts: a negative n is let through
DecayAssertsAnyCount(halfLife, n, t) == halfLife > 0 /\ t >= 0

\* the three assertions of decay
DecayAsserts(halfLife, n, t) == halfLife > 0 /\ n >= 0 /\ t >= 0

\* variant of Decay: the exponent has the wrong sign
DecayGrowing(halfLife, n, t) ==
    LET q == t \div halfLife
        r == t % halfLife
    IN IF t >= Inf \/ q > 30 THEN 0
       ELSE ((n * (2 * halfLife + r)) \div (2 * halfLife)) * Pow(2, q)

\* n * exp(-get_decay_const(halfLife) * t): n halved once per whole
\* half-life, linear within the running half-life, rounded down
Decay(halfLife, n, t) ==
    LET q == t \div halfLife
        r == t % halfLife
    IN IF t >= Inf \/ q > 30 THEN 0
       ELSE ((n * (2 * halfLife - r)) \div (2 * halfLife)) \div Pow(2, q)

\* the assertion of get_decay_const
DecayConstAsserts(halfLife) == halfLife > 0

\* get_decay_const: log(2)/halfLife, in millionths per second
GetDecayConst(halfLife) == Ln2 \div halfLife

\* the assertions of activity
ActivityAsserts(halfLife, n, t) == halfLife > 0 /\ n >= 0 /\ t >= 0

\* activity: lam*n*exp(-lam*t)
Activity(halfLife, n, t) ==
    (GetDecayConst(halfLife) * Decay(halfLife, n, t)) \div 1000000

\* variant of ToBase: an unknown unit is converted like the default unit
ToBaseUnknownAsDefault(n, u) ==
    IF u = "Ci" THEN MulDec(n, CiMant, CiExp)
    ELSE IF u \in {"Bq", "atoms"} THEN n
    ELSE MulDec(n, CiMant, MicroExp)

\* lines 89-95 of decay: n in Bq or atoms; an unknown unit leaves n as it
\* is (and prints a warning)
ToBase(n, u) ==
    IF u = "uCi" THEN MulDec(n, CiMant, MicroExp)
    ELSE IF u = "Ci" THEN MulDec(n, CiMant, CiExp)
    ELSE n

\* ------------------------------------------------------------------------
\* foil_count_time
\* ------------------------------------------------------------------------

\* integrand(t) for units = 'Bq': decay(halfLife, init, t, units)*efficiency
Integrand(halfLife, init, efficiency, t) ==
    (Decay(halfLife, init, t) * efficiency) \div Scale

\* s = quad(integrand, 0, tf)[0]/tf, by Simpson's rule on [0, tf]
MeanRate(halfLife, init, efficiency, tf) ==
    IF tf >= Inf THEN 0
    ELSE (Integrand(halfLife, init, efficiency, 0)
          + 4 * Integrand(halfLife, init, efficiency, tf \div 2)
          + Integrand(halfLife, init, efficiency, tf)) \div 6

\* variant of SolverAsserts: the background must be positive
SolverAssertsPositiveBackground(sigma, halfLife, init, efficiency, background) ==
    /\ sigma <= Scale
    /\ halfLife > 0
    /\ init >= 0
    /\ efficiency <= Scale
    /\ background > 0

\* the assertions of foil_count_time
SolverAsserts(sigma, halfLife, init, efficiency, background) ==
    /\ sigma <= Scale
    /\ halfLife > 0
    /\ init >= 0
    /\ efficiency <= Scale
    /\ background >= 0

\* math.sqrt of a negative operand in the Knoll expression (ValueError)
KnollValueError(s, background) == s + background < 0 \/ background < 0

\* a zero divisor in the Knoll expression (ZeroDivisionError)
KnollZeroDiv(sigma, s, background) ==
    \/ sigma * s = 0
    \/ background = 0
    \/ FixSqrt(((s + background) * Scale) \div background) = 0

\* sqrt((s+background)/background), fixed point
RateRatio(s, background) ==
    FixSqrt(((s + background) * Scale) \div background)

\* a positive time in whole ticks: one tick at least, Inf at most
Clamp(t) == IF t < 1 THEN 1 ELSE IF t >= Inf THEN Inf ELSE t

\* tf = ((sqrt(s+background)+sqrt(background))**2/(sigma**2*s**2))
\*      /(1+1/sqrt((s+background)/background)), rounded up to a whole
\* number of ticks, of which there are `ticks` in a second; the quotient
\* is positive, so it is one tick at least
KnollTicks(sigma, s, background, ticks) ==
    LET root == FixSqrt(s + background) + FixSqrt(background)
        numer == (((root * root * Scale) \div (sigma * s)) * Scale * Scale)
                     \div (sigma * s)
        denom == Scale + (Scale * Scale) \div RateRatio(s, background)
    IN IF numer >= Inf \div ticks THEN Inf
       ELSE Clamp(CeilDiv(numer * ticks, denom))

\* the same in whole seconds
KnollTime(sigma, s, background) == KnollTicks(sigma, s, background, 1)

\* the while loop of foil_count_time and the statements after it; s is
\* the mean rate of the last pass
RECURSIVE CountTimeLoop(_, _, _, _, _, _, _, _, _)
CountTimeLoop(sigma, halfLife, init, efficiency, background, precision, tf, diff, s) ==
    IF diff > precision
    THEN LET prevt == tf
             s1 == MeanRate(halfLife, init, efficiency, tf)
         IN IF KnollValueError(s1, background)
            THEN [exc |-> "ValueError", tf |-> 0, tb |-> 0]
            ELSE IF KnollZeroDiv(sigma, s1, background)
            THEN [exc |-> "none", tf |-> Sentinel, tb |-> Sentinel]
            ELSE LET tf1 == KnollTime(sigma, s1, background)
                 IN CountTimeLoop(sigma, halfLife, init, efficiency,
                                  background, precision, tf1, tf1 - prevt, s1)
    ELSE [exc |-> "none",
          tf |-> IF tf = Inf THEN Sentinel ELSE tf,
          tb |-> IF tf = Inf THEN Inf
                 ELSE (tf * Scale) \div RateRatio(s, background)]

\* foil_count_time(sigma, halfLife, init, efficiency, background,
\*                 units='Bq', precision)
foil_count_time(sigma, halfLife, init, efficiency, background, precision) ==
    IF ~SolverAsserts(sigma, halfLife, init, efficiency, background)
    THEN [exc |-> "AssertionError", tf |-> 0, tb |-> 0]
    ELSE CountTimeLoop(sigma, halfLife, init, efficiency, background,
                       precision, InitTf, InitDiff, 0)

\* ------------------------------------------------------------------------
\* optimal_count_plan: state
\* ------------------------------------------------------------------------

VARIABLES
    foilParams,   \* the caller's table: row -> [foil, halfLife, initActivity,
                  \*   activityUncert, relStat, absEff]; absEff is the value
                  \*   the efficiency function and the solid-angle ratio give
    units,        \* arguments of the call
    handleTime,
    background,
    toMinute,
    pc,           \* "convert", "permute", "count", "compare", "done", "raised"
    orders,       \* list(permutations(set(foilParams.foil.tolist())))
    permIdx,      \* position of the for loop in orders
    pos,          \* position of the inner for loop in the order
    df,           \* row -> [countTime, countOrder, countActivity,
                  \*         countActUncert], the columns added to the copy
    tmpTotal,
    totalTime,
    bestOrder,    \* <<>> while unbound
    bestDF,
    callerTable,  \* history: foilParams as the caller passed it
    solverTime,   \* history: row -> the count time assigned to the row at
                  \*   lines 752-768 in this permutation, NoTime if none
    rejected,     \* history: rows whose solver call raised AssertionError
                  \*   in this permutation
    evaluated     \* history: <<[order, total]>> of the permutations done

planVars == <<foilParams, units, handleTime, background, toMinute, pc,
              orders, permIdx, pos, df, tmpTotal, totalTime, bestOrder,
              bestDF, callerTable, solverTime, rejected, evaluated>>

\* foil_count_time run on its own: the arguments, the locals of the
\* function and what the call gives back
VARIABLES
    args,         \* [sigma, halfLife, init, efficiency, background,
                  \*  precision]; times in ticks
    fpc,          \* "idle", "assert", "loop", "returned", "raised"
    tf,           \* locals of the while loop, times in ticks
    prevt,
    diff,
    s,
    passes,       \* history: passes of the while loop made so far
    result        \* [exc, tf, tb]

solverVars == <<args, fpc, tf, prevt, diff, s, passes, result>>

\* get_peak_windows run on its own
VARIABLES
    ch,           \* the list of peak channels, in increasing order
    maxWindow,    \* arguments of the call
    peakWidth,
    minWindow,
    idx,          \* the loop variable i (0-based), Len(ch) after the loop
    windows,      \* the dictionary: peak channel -> <<low, high>>
    wpc           \* "idle", "loop", "returned"

windowVars == <<ch, maxWindow, peakWidth, minWindow, idx, windows, wpc>>

\* decay, activity and get_decay_const called one after another
VARIABLES
    dHalfLife,    \* the halfLife of every call
    dQuanta,      \* the n of every call, in quanta of 0.37 (Bq or atoms)
    dprev,        \* the call before the last one
    dlast         \* the last call: [called, func, units, n, t, exc, value]

decayVars == <<dHalfLife, dQuanta, dprev, dlast>>

\* ge_peakfit
VARIABLES
    pkCounts,     \* the argument counts, one count per channel
    pkStdArg,     \* the argument countStd, <<>> when it is left out
    pkAmp,        \* the amplitude a of (a, b, c), the gaussian fit
    pkStd,        \* the local countStd after lines 423-425, in 1/Scale
    pkCalls,      \* the calls of curve_fit made so far
    pkPopt,       \* the call of curve_fit: the argument sigma, the popt it
                  \*   returned (p3, p4 and, in halves, p5) and the counts
                  \*   ge_bincounts gives with this popt, [p3, p4, p5,
                  \*   model, sigma]
    pkpc,         \* "idle", "called", "seeded", "fitted", "returned",
                  \*   "raised"
    pkResult      \* [exc, peakCounts, peakStd, redChiSq]

peakVars == <<pkCounts, pkStdArg, pkAmp, pkStd, pkCalls, pkPopt, pkpc, pkResult>>

\* find_best_fit
VARIABLES
    fbFuncs,      \* args: for each function what curve_fit and red_chisq
                  \*   do with it, [exc, chi]
    fbi,          \* position of the loop `for func in args`
    fbLocals,     \* the locals redChiSq, popt, pcov, bestFunc, params,
                  \*   covar: <<>> while unbound, else <<value>>; popt and
                  \*   pcov are named by the position of their function
    bestChiSq,
    fbpc,         \* "idle", "loop", "returned"
    fbResult      \* the returned tuple [func, params, covar, chi]

fitVars == <<fbFuncs, fbi, fbLocals, bestChiSq, fbpc, fbResult>>

vars == <<planVars, solverVars, windowVars, decayVars, peakVars, fitVars>>

\* the variables a specification leaves alone
exceptPlan == <<solverVars, windowVars, decayVars, peakVars, fitVars>>
exceptSolver == <<planVars, windowVars, decayVars, peakVars, fitVars>>
exceptWindows == <<planVars, solverVars, decayVars, peakVars, fitVars>>
exceptDecay == <<planVars, solverVars, windowVars, peakVars, fitVars>>
exceptPeak == <<planVars, solverVars, windowVars, decayVars, fitVars>>
exceptFit == <<planVars, solverVars, windowVars, decayVars, peakVars>>

\* ge_peakfit has no result yet
NoPeakResult == [exc |-> "none", peakCounts |-> 0, peakStd |-> 0, redChiSq |-> 0]

\* curve_fit has returned nothing yet
NoPopt == [p3 |-> 0, p4 |-> 0, p5 |-> 0, model |-> <<>>, sigma |-> <<>>]

\* no call of ge_peakfit is under way
PeakIdle ==
    /\ pkCounts = <<>>
    /\ pkStdArg = <<>>
    /\ pkAmp = 0
    /\ pkStd = <<>>
    /\ pkCalls = 0
    /\ pkPopt = NoPopt
    /\ pkpc = "idle"
    /\ pkResult = NoPeakResult

\* the locals of find_best_fit before the loop
NoLocals ==
    [redChiSq |-> <<>>, popt |-> <<>>, pcov |-> <<>>, bestFunc |-> <<>>,
     params |-> <<>>, covar |-> <<>>]

\* find_best_fit has returned nothing yet
NoFitResult == [func |-> <<>>, params |-> <<>>, covar |-> <<>>, chi |-> 0]

\* no call of find_best_fit is under way
FitIdle ==
    /\ fbFuncs = <<>>
    /\ fbi = 0
    /\ fbLocals = NoLocals
    /\ bestChiSq = 0
    /\ fbpc = "idle"
    /\ fbResult = NoFitResult

\* no call has been made
NoCall ==
    [called |-> FALSE, func |-> "", units |-> "", n |-> [m |-> 0, e |-> 0],
     t |-> 0, exc |-> "none", value |-> 0]

\* no call of decay, activity or get_decay_const is under way
DecayIdle ==
    /\ dHalfLife = 0
    /\ dQuanta = 0
    /\ dprev = NoCall
    /\ dlast = NoCall

\* no call of optimal_count_plan is under way
PlanIdle ==
    /\ foilParams = <<>>
    /\ units = "Bq"
    /\ handleTime = 0
    /\ background = 0
    /\ toMinute = FALSE
    /\ pc = "idle"
    /\ orders = <<>>
    /\ permIdx = 1
    /\ pos = 1
    /\ df = <<>>
    /\ tmpTotal = 0
    /\ totalTime = 0
    /\ bestOrder = <<>>
    /\ bestDF = <<>>
    /\ callerTable = <<>>
    /\ solverTime = <<>>
    /\ rejected = {}
    /\ evaluated = <<>>

\* no call of get_peak_windows is under way
WindowsIdle ==
    /\ ch = <<>>
    /\ maxWindow = 0
    /\ peakWidth = 0
    /\ minWindow = 0
    /\ idx = 0
    /\ windows = <<>>
    /\ wpc = "idle"

\* no call of foil_count_time on its own is under way
SolverIdle ==
    /\ args = [sigma |-> 0, halfLife |-> 0, init |-> 0, efficiency |-> 0,
               background |-> 0, precision |-> 0]
    /\ fpc = "idle"
    /\ tf = 0
    /\ prevt = 0
    /\ diff = 0
    /\ s = 0
    /\ passes = 0
    /\ result = [exc |-> "none", tf |-> 0, tb |-> 0]

\* one function runs, the variables of the others are idle
OnlyPlan == SolverIdle /\ WindowsIdle /\ DecayIdle /\ PeakIdle /\ FitIdle
OnlySolver == PlanIdle /\ WindowsIdle /\ DecayIdle /\ PeakIdle /\ FitIdle
OnlyWindows == PlanIdle /\ SolverIdle /\ DecayIdle /\ PeakIdle /\ FitIdle
OnlyDecay == PlanIdle /\ SolverIdle /\ WindowsIdle /\ PeakIdle /\ FitIdle
OnlyPeak == PlanIdle /\ SolverIdle /\ WindowsIdle /\ DecayIdle /\ FitIdle
OnlyFit == PlanIdle /\ SolverIdle /\ WindowsIdle /\ DecayIdle /\ PeakIdle

\* marks a row of solverTime that has no time yet
NoTime == 0 - 1

\* ------------------------------------------------------------------------
\* Inputs
\* ------------------------------------------------------------------------

\* rows a caller may pass: activities in quanta of 0.37 Bq, relStat and
\* absEff in 1/Scale; the third is rejected by the solver
\* (initActivity - 3*activityUncert < 0), the fourth has no activity
Profiles ==
    { [halfLife |-> 120, act |-> 100, unc |-> 10, relStat |-> 10, absEff |-> 10],
      [halfLife |-> 600, act |-> 30,  unc |-> 2,  relStat |-> 10, absEff |-> 10],
      [halfLife |-> 600, act |-> 10,  unc |-> 4,  relStat |-> 10, absEff |-> 10],
      [halfLife |-> 600, act |-> 0,   unc |-> 0,  relStat |-> 10, absEff |-> 10] }

\* argument lists a caller may pass: the defaults but for the background
\* of the repository's test (0.01), then other units with no handling time
\* or whole minutes, no background, and a negative background
Calls ==
    { [units |-> "Bq",  handleTime |-> 60, background |-> 1,  toMinute |-> FALSE],
      [units |-> "uCi", handleTime |-> 0,  background |-> 1,  toMinute |-> FALSE],
      [units |-> "Ci",  handleTime |-> 60, background |-> 1,  toMinute |-> TRUE],
      [units |-> "Ci",  handleTime |-> 60, background |-> 0,  toMinute |-> FALSE],
      [units |-> "Bq",  handleTime |-> 60, background |-> -1, toMinute |-> FALSE] }

\* the decimal float of q quanta of 0.37 Bq, written in the unit u
Quanta(q, u) ==
    IF u = "Bq" THEN [m |-> CiMant * q, e |-> -2]
    ELSE IF u = "uCi" THEN [m |-> q, e |-> -2 - MicroExp]
    ELSE [m |-> q, e |-> -2 - CiExp]

\* foil labels are positions in the iteration order of set(foil); the rows
\* of the table are listed foil by foil
FoilMaps ==
    { f \in [Channels -> Channels] :
        /\ f[1] = 1
        /\ \A c \in Channels \ {1} : f[c] \in {f[c - 1], f[c - 1] + 1} }

Foils == { foilParams[c].foil : c \in Channels }

RECURSIVE RowsFrom(_, _)
RowsFrom(f, c) ==
    IF c > NumChannels THEN <<>>
    ELSE IF foilParams[c].foil = f THEN <<c>> \o RowsFrom(f, c + 1)
    ELSE RowsFrom(f, c + 1)

\* df.groupby("foil").get_group(f).index
GroupRows(f) == RowsFrom(f, 1)

\* ------------------------------------------------------------------------
\* itertools.permutations
\* ------------------------------------------------------------------------

RemoveAt(seq, i) == SubSeq(seq, 1, i - 1) \o SubSeq(seq, i + 1, Len(seq))

RECURSIVE PrependAll(_, _)
PrependAll(x, seqs) ==
    IF seqs = <<>> THEN <<>>
    ELSE << <<x>> \o Head(seqs) >> \o PrependAll(x, Tail(seqs))

RECURSIVE Permutations(_)
RECURSIVE PermsFrom(_, _)

\* variant of PermsFrom: the permutations that start with the last element
\* are left out
PermsFromShort(seq, i) ==
    IF i > Len(seq) \/ (i = Len(seq) /\ i > 1) THEN <<>>
    ELSE PrependAll(seq[i], Permutations(RemoveAt(seq, i)))
             \o PermsFrom(seq, i + 1)

PermsFrom(seq, i) ==
    IF i > Len(seq) THEN <<>>
    ELSE PrependAll(seq[i], Permutations(RemoveAt(seq, i)))
             \o PermsFrom(seq, i + 1)

\* the permutations of seq in the order itertools.permutations yields them
Permutations(seq) == IF seq = <<>> THEN << <<>> >> ELSE PermsFrom(seq, 1)

RECURSIVE SetToSeq(_, _)
SetToSeq(S, k) ==
    IF k > NumChannels THEN <<>>
    ELSE IF k \in S THEN <<k>> \o SetToSeq(S, k + 1)
    ELSE SetToSeq(S, k + 1)

\* set(foilParams.foil.tolist()) in its iteration order
FoilSet == SetToSeq(Foils, 1)

\* ------------------------------------------------------------------------
\* optimal_count_plan: one permutation
\* ------------------------------------------------------------------------

RECURSIVE MaxOver(_, _)
MaxOver(col, c) ==
    IF c > NumChannels THEN col[1]
    ELSE LET rest == MaxOver(col, c + 1)
         IN IF col[c] > rest THEN col[c] ELSE rest

\* max(df['countTime']) and max(df['countOrder'])
MaxCountTime(d) == MaxOver([c \in Channels |-> d[c].countTime], 1)
MaxCountOrder(d) == MaxOver([c \in Channels |-> d[c].countOrder], 1)

\* variant of CeilMinute: the time is cut to the whole minute below
FloorMinute(t) == (t \div 60) * 60

\* ceil(t/60.)*60
CeilMinute(t) == CeilDiv(t, 60) * 60

\* variant of FreshFrame: the frame of the previous permutation is reused
StaleFrame ==
    IF permIdx = 1
    THEN [c \in Channels |->
            [countTime |-> 0,
             countOrder |-> 0,
             countActivity |-> ToFix(foilParams[c].initActivity),
             countActUncert |-> ToFix(foilParams[c].activityUncert)]]
    ELSE [c \in Channels |-> [df[c] EXCEPT !.countTime = 0,
                                           !.countOrder = 0]]

\* lines 716-721: the copy of foilParams with its four new columns
FreshFrame ==
    [c \in Channels |->
        [countTime |-> 0,
         countOrder |-> 0,
         countActivity |-> ToFix(foilParams[c].initActivity),
         countActUncert |-> ToFix(foilParams[c].activityUncert)]]

\* the solver call of lines 752-766 for row rx of frame d
SolveRow(d, rx) ==
    foil_count_time(foilParams[rx].relStat,
                    foilParams[rx].halfLife,
                    d[rx].countActivity - 3 * d[rx].countActUncert,
                    foilParams[rx].absEff,
                    background,
                    Precision)

\* lines 727-773: the loop over the rows of one foil.  st is
\* [ct, df, exc, times, rej]; times and rej record, for the history
\* variables, the time assigned at lines 752-768 and the rejected rows.
RECURSIVE CountChannels(_, _)
CountChannels(rows, st) ==
    IF rows = <<>> THEN st
    ELSE
      LET rx == Head(rows)
          d1 == [st.df EXCEPT ![rx].countOrder = MaxCountOrder(st.df) + 1]
          r == SolveRow(d1, rx)
      IN IF r.exc = "AssertionError"
         THEN \* except AssertionError: countTime = 1E99; break
              [st EXCEPT !.df = [d1 EXCEPT ![rx].countTime = Sentinel],
                         !.times = [@ EXCEPT ![rx] = Sentinel],
                         !.rej = @ \cup {rx}]
         ELSE IF r.exc # "none"
         THEN [st EXCEPT !.df = d1, !.exc = r.exc]
         ELSE
           LET t == IF toMinute THEN CeilMinute(r.tf) ELSE r.tf
               d2 == [d1 EXCEPT ![rx].countTime = t]
               ct2 == IF d2[rx].countTime > st.ct THEN d2[rx].countTime
                                                 ELSE st.ct
               d3 == [d2 EXCEPT ![rx].countTime = MaxCountTime(d2) + 1]
           IN CountChannels(Tail(rows),
                  [st EXCEPT !.ct = ct2, !.df = d3,
                             !.times = [@ EXCEPT ![rx] = t]])

\* variant of AddToTotal: the handling time is counted in the total
AddToTotalWithHandling(total, ct) == total + ct + handleTime

\* line 776
AddToTotal(total, ct) == total + ct

\* lines 780-781: every row of foil f gets the count time ct
Consolidate(d, f, ct) ==
    [c \in Channels |->
        IF foilParams[c].foil = f THEN [d[c] EXCEPT !.countTime = ct]
                                  ELSE d[c]]

\* line 785: the rows the decay loop updates
ToDecay(d) == { c \in Channels : d[c].countTime = 0 }

\* lines 784-791: decay the rows of ToDecay by ct + handleTime
DecayRemaining(d, ct) ==
    [c \in Channels |->
        IF c \in ToDecay(d)
        THEN [d[c] EXCEPT
                 !.countActivity = Decay(foilParams[c].halfLife,
                                         d[c].countActivity, ct + handleTime),
                 !.countActUncert = Decay(foilParams[c].halfLife,
                                          d[c].countActUncert, ct + handleTime)]
        ELSE d[c]]

\* an assertion of decay fails in the loop of lines 784-791
DecayRaises(d, ct) ==
    \E c \in ToDecay(d) :
        \/ ~DecayAsserts(foilParams[c].halfLife, d[c].countActivity,
                         ct + handleTime)
        \/ ~DecayAsserts(foilParams[c].halfLife, d[c].countActUncert,
                         ct + handleTime)

\* lines 726-791: the body of `for f in order`, from frame d and running
\* total; the result is [df, total, exc, times, rej]
CountFoilBody(d, total, f) ==
    LET st == CountChannels(GroupRows(f),
                  [ct |-> 0, df |-> d, exc |-> "none",
                   times |-> [c \in Channels |-> NoTime], rej |-> {}])
        d1 == Consolidate(st.df, f, st.ct)
    IN IF st.exc # "none"
       THEN [df |-> st.df, total |-> total, exc |-> st.exc,
             times |-> st.times, rej |-> st.rej]
       ELSE IF DecayRaises(d1, st.ct)
       THEN [df |-> d1, total |-> AddToTotal(total, st.ct),
             exc |-> "AssertionError", times |-> st.times, rej |-> st.rej]
       ELSE [df |-> DecayRemaining(d1, st.ct),
             total |-> AddToTotal(total, st.ct), exc |-> "none",
             times |-> st.times, rej |-> st.rej]

\* variants of Better: every permutation replaces the best one; an equal
\* total replaces it too
BetterAlways(tmp, best) == TRUE
BetterOrEqual(tmp, best) == tmp <= best

\* line 794
Better(tmp, best) == tmp < best

\* ------------------------------------------------------------------------
\* optimal_count_plan: actions
\* ------------------------------------------------------------------------

ZeroFrame ==
    [c \in Channels |->
        [countTime |-> 0, countOrder |-> 0, countActivity |-> 0,
         countActUncert |-> 0]]

\* the state at the call
Init ==
    /\ \E call \in Calls :
          /\ units = call.units
          /\ handleTime = call.handleTime
          /\ background = call.background
          /\ toMinute = call.toMinute
    /\ \E fm \in FoilMaps : \E pr \in [Channels -> Profiles] :
          foilParams =
              [c \in Channels |->
                  [foil |-> fm[c],
                   halfLife |-> pr[c].halfLife,
                   initActivity |-> Quanta(pr[c].act, units),
                   activityUncert |-> Quanta(pr[c].unc, units),
                   relStat |-> pr[c].relStat,
                   absEff |-> pr[c].absEff]]
    /\ callerTable = foilParams
    /\ pc = "convert"
    /\ orders = <<>>
    /\ permIdx = 1
    /\ pos = 1
    /\ df = ZeroFrame
    /\ tmpTotal = 0
    /\ totalTime = Inf
    /\ bestOrder = <<>>
    /\ bestDF = ZeroFrame
    /\ solverTime = [c \in Channels |-> NoTime]
    /\ rejected = {}
    /\ evaluated = <<>>
    /\ OnlyPlan

\* lines 707-712: the activities of the table in Bq
ConvertedRow(row) ==
    IF units = "uCi"
    THEN [row EXCEPT !.initActivity = MulDec(@, CiMant, MicroExp),
                     !.activityUncert = MulDec(@, CiMant, MicroExp)]
    ELSE IF units = "Ci"
    THEN [row EXCEPT !.initActivity = MulDec(@, CiMant, CiExp),
                     !.activityUncert = MulDec(@, CiMant, CiExp)]
    ELSE row

\* lines 702-715: totalTime = np.inf, the unit conversion, and the list of
\* permutations the for loop runs over
ConvertUnits ==
    /\ pc = "convert"
    /\ foilParams' = [c \in Channels |-> ConvertedRow(foilParams[c])]
    /\ totalTime' = Inf
    /\ orders' = Permutations(FoilSet)
    /\ permIdx' = 1
    /\ pc' = "permute"
    /\ UNCHANGED <<units, handleTime, background, toMinute, pos, df,
                   tmpTotal, bestOrder, bestDF, callerTable, solverTime,
                   rejected, evaluated>>
    /\ UNCHANGED exceptPlan

\* lines 715-722: the next permutation and its local variables
StartOrder ==
    /\ pc = "permute"
    /\ permIdx <= Len(orders)
    /\ df' = FreshFrame
    /\ tmpTotal' = 0
    /\ pos' = 1
    /\ pc' = IF orders[permIdx] = <<>> THEN "compare" ELSE "count"
    /\ solverTime' = [c \in Channels |-> NoTime]
    /\ rejected' = {}
    /\ UNCHANGED <<foilParams, units, handleTime, background, toMinute,
                   orders, permIdx, totalTime, bestOrder, bestDF,
                   callerTable, evaluated>>
    /\ UNCHANGED exceptPlan

\* lines 725-791: one pass of `for f in order`
CountFoil ==
    /\ pc = "count"
    /\ \E f \in {orders[permIdx][pos]} :
       \E res \in {CountFoilBody(df, tmpTotal, f)} :
          /\ df' = res.df
          /\ tmpTotal' = res.total
          /\ solverTime' = [c \in Channels |->
                               IF foilParams[c].foil = f THEN res.times[c]
                                                         ELSE solverTime[c]]
          /\ rejected' = rejected \cup res.rej
          /\ pc' = IF res.exc # "none" THEN "raised"
                   ELSE IF pos = Len(orders[permIdx]) THEN "compare"
                   ELSE "count"
          /\ pos' = pos + 1
    /\ UNCHANGED <<foilParams, units, handleTime, background, toMinute,
                   orders, permIdx, totalTime, bestOrder, bestDF,
                   callerTable, evaluated>>
    /\ UNCHANGED exceptPlan

\* lines 794-797: keep the permutation if it is better
CompareBest ==
    /\ pc = "compare"
    /\ IF Better(tmpTotal, totalTime)
       THEN /\ bestOrder' = orders[permIdx]
            /\ totalTime' = tmpTotal
            /\ bestDF' = df
       ELSE UNCHANGED <<bestOrder, totalTime, bestDF>>
    /\ evaluated' = Append(evaluated,
                        [order |-> orders[permIdx], total |-> tmpTotal])
    /\ permIdx' = permIdx + 1
    /\ pc' = "permute"
    /\ UNCHANGED <<foilParams, units, handleTime, background, toMinute,
                   orders, pos, df, tmpTotal, callerTable, solverTime,
                   rejected>>
    /\ UNCHANGED exceptPlan

\* line 800: return bestDF.sort_values(by='countOrder'), bestOrder,
\* totalTime; sorting reorders the rows of bestDF and changes no cell.
\* bestDF and bestOrder are unbound if no permutation was kept.
Return ==
    /\ pc = "permute"
    /\ permIdx > Len(orders)
    /\ pc' = IF bestOrder = <<>> THEN "raised" ELSE "done"
    /\ UNCHANGED <<foilParams, units, handleTime, background, toMinute,
                   orders, permIdx, pos, df, tmpTotal, totalTime, bestOrder,
                   bestDF, callerTable, solverTime, rejected, evaluated>>
    /\ UNCHANGED exceptPlan

Next ==
    \/ ConvertUnits
    \/ StartOrder
    \/ CountFoil
    \/ CompareBest
    \/ Return

Spec == Init /\ [][Next]_vars

\* ------------------------------------------------------------------------
\* foil_count_time on its own, one pass of its loop at a time
\* ------------------------------------------------------------------------

\* argument lists a caller may pass, valid and invalid: sigma and
\* efficiency in 1/Scale, init in 1/Scale Bq, background in 1/Scale counts
\* per second, halfLife in seconds, precision the default or a quarter of
\* a second; every precision is below InitDiff, so the loop is entered
SolverCalls ==
    { [sigma |-> sg, halfLife |-> hl * Ticks, init |-> n, efficiency |-> ef,
       background |-> bg, precision |-> pr] :
        sg \in {0 - 10, 0, 10, 100, 200},
        hl \in {0 - 120, 0, 120, 600},
        n \in {0 - 100, 0, 2590, 200000},
        ef \in {0 - 10, 0, 10, 200},
        bg \in {0 - 1, 0, 1},
        pr \in {Precision * Ticks, Ticks \div 4} }

\* the state at the call
SolverInit ==
    /\ OnlySolver
    /\ args \in SolverCalls
    /\ fpc = "assert"
    /\ tf = 0
    /\ prevt = 0
    /\ diff = 0
    /\ s = 0
    /\ passes = 0
    /\ result = [exc |-> "none", tf |-> 0, tb |-> 0]

\* lines 590-625: the assertions, then tf = 1 and diff = 1000
Validate ==
    /\ fpc = "assert"
    /\ IF SolverAsserts(args.sigma, args.halfLife, args.init,
                        args.efficiency, args.background)
       THEN /\ fpc' = "loop"
            /\ tf' = InitTf * Ticks
            /\ diff' = InitDiff * Ticks
            /\ UNCHANGED result
       ELSE /\ fpc' = "raised"
            /\ result' = [exc |-> "AssertionError", tf |-> 0, tb |-> 0]
            /\ UNCHANGED <<tf, diff>>
    /\ UNCHANGED <<args, prevt, s, passes>>
    /\ UNCHANGED exceptSolver

\* lines 627-632: one pass of `while diff > precision`, and lines 637-638
\* when the pass divides by zero; a ValueError of math.sqrt is not caught
LoopPass ==
    /\ fpc = "loop"
    /\ diff > args.precision
    /\ \E s1 \in {MeanRate(args.halfLife, args.init, args.efficiency, tf)} :
          /\ prevt' = tf
          /\ s' = s1
          /\ passes' = passes + 1
          /\ IF KnollValueError(s1, args.background)
             THEN /\ fpc' = "raised"
                  /\ result' = [exc |-> "ValueError", tf |-> 0, tb |-> 0]
                  /\ UNCHANGED <<tf, diff>>
             ELSE IF KnollZeroDiv(args.sigma, s1, args.background)
             THEN /\ fpc' = "returned"
                  /\ result' = [exc |-> "none", tf |-> Sentinel,
                                tb |-> Sentinel]
                  /\ UNCHANGED <<tf, diff>>
             ELSE \E t1 \in {KnollTicks(args.sigma, s1, args.background,
                                        Ticks)} :
                     /\ tf' = t1
                     /\ diff' = t1 - tf
                     /\ fpc' = "loop"
                     /\ UNCHANGED result
    /\ UNCHANGED args
    /\ UNCHANGED exceptSolver

\* lines 633-636: the loop is left; tb, the test for infinity, the return
SolverReturn ==
    /\ fpc = "loop"
    /\ ~(diff > args.precision)
    /\ result' = [exc |-> "none",
                  tf |-> IF tf = Inf THEN Sentinel ELSE tf,
                  tb |-> IF tf = Inf THEN Inf
                         ELSE (tf * Scale) \div RateRatio(s, args.background)]
    /\ fpc' = "returned"
    /\ UNCHANGED <<args, tf, prevt, diff, s, passes>>
    /\ UNCHANGED exceptSolver

SolverNext ==
    \/ Validate
    \/ LoopPass
    \/ SolverReturn

SpecSolver == SolverInit /\ [][SolverNext]_vars

\* ------------------------------------------------------------------------
\* get_peak_windows
\* ------------------------------------------------------------------------

Max(a, b) == IF a > b THEN a ELSE b

\* list[k] of Python for a 0-based k: a negative k counts from the end
PyIndex(list, k) ==
    IF k >= 0 THEN list[k + 1] ELSE list[Len(list) + k + 1]

\* variant of HighSide: the shrunk side has no floor of minWindow
HighSideNoFloor(c, next, mw, pw, minW) ==
    IF c + mw > next - pw THEN c + (next - pw - c) ELSE c + mw

\* variant of HighSide: the side facing a close neighbour stops half way
HighSideHalfWay(c, next, mw, pw, minW) ==
    IF c + mw > next - pw THEN c + Max((next - c) \div 2, minW) ELSE c + mw

\* variant of HighSide: the side facing a close neighbour runs up to the
\* neighbour's channel, peakWidth is not taken off
HighSideNoWidth(c, next, mw, pw, minW) ==
    IF c + mw > next THEN c + Max(next - c, minW) ELSE c + mw

\* lines 471-475 and 485-490: the upper bound of the window of the peak at
\* channel c whose next peak is at channel next
HighSide(c, next, mw, pw, minW) ==
    IF c + mw > next - pw THEN c + Max(next - pw - c, minW) ELSE c + mw

\* variant of LowSide: the shrunk side has no floor of minWindow
LowSideNoFloor(c, prev, mw, pw, minW) ==
    IF c - mw < prev + pw THEN c - (c - pw - prev) ELSE c - mw

\* variant of LowSide: the shrunk side may be as small as nothing
LowSideToZero(c, prev, mw, pw, minW) ==
    IF c - mw < prev + pw THEN c - Max(c - pw - prev, 0) ELSE c - mw

\* lines 480-484 and 493-497: the lower bound of the window of the peak at
\* channel c, ch[i-1] being prev
LowSide(c, prev, mw, pw, minW) ==
    IF c - mw < prev + pw THEN c - Max(c - pw - prev, minW) ELSE c - mw

\* lines 468-497: the body of `for i in range(0, len(ch))` for the 0-based
\* i: windows[ch[i]] after the four if statements, run one after another
PeakWindow(list, k, mw, pw, minW) ==
    LET n == Len(list)
        c == PyIndex(list, k)
        w0 == <<0, 0>>
        w1 == IF k = 0 /\ k # n - 1
              THEN <<c - mw, HighSide(c, PyIndex(list, k + 1), mw, pw, minW)>>
              ELSE w0
        w2 == IF k = 0 /\ k = n - 1 THEN <<c - mw, c + mw>> ELSE w1
        w3 == IF k # 0 /\ k # n - 1
              THEN <<LowSide(c, PyIndex(list, k - 1), mw, pw, minW),
                     HighSide(c, PyIndex(list, k + 1), mw, pw, minW)>>
              ELSE w2
        w4 == IF k = n - 1
              THEN <<LowSide(c, PyIndex(list, k - 1), mw, pw, minW), c + mw>>
              ELSE w3
    IN w4

\* the lists a caller may pass: up to MaxPeaks peaks in increasing order, the
\* first at channel 20 and each next one a gap of Gaps further, and three
\* peaks of the repository's test
Gaps == {1, 3, 5, 7, 10, 16}

RECURSIVE ListsOf(_)
ListsOf(n) ==
    IF n = 0 THEN { <<>> }
    ELSE IF n = 1 THEN { <<20>> }
    ELSE { Append(l, l[Len(l)] + g) : l \in ListsOf(n - 1), g \in Gaps }

PeakLists ==
    UNION { ListsOf(n) : n \in 0..MaxPeaks } \cup { <<195, 210, 291>> }

\* the arguments a caller may pass: the defaults, and small windows with
\* minWindow below and above peakWidth and maxWindow
WindowParams ==
    { [maxWindow |-> 100, peakWidth |-> 15, minWindow |-> 20] }
    \cup { [maxWindow |-> mw, peakWidth |-> pw, minWindow |-> mn] :
              mw \in {4, 6}, pw \in {1, 3}, mn \in {2, 5} }

\* the state at the call, after windows = {}
WindowsInit ==
    /\ OnlyWindows
    /\ ch \in PeakLists
    /\ \E p \in WindowParams :
          /\ maxWindow = p.maxWindow
          /\ peakWidth = p.peakWidth
          /\ minWindow = p.minWindow
    /\ idx = 0
    /\ windows = <<>>
    /\ wpc = "loop"

\* lines 467-497: one pass of the for loop
SetWindow ==
    /\ wpc = "loop"
    /\ idx < Len(ch)
    /\ windows' = [c \in DOMAIN windows \cup {PyIndex(ch, idx)} |->
                      IF c = PyIndex(ch, idx)
                      THEN PeakWindow(ch, idx, maxWindow, peakWidth,
                                      minWindow)
                      ELSE windows[c]]
    /\ idx' = idx + 1
    /\ UNCHANGED <<ch, maxWindow, peakWidth, minWindow, wpc>>
    /\ UNCHANGED exceptWindows

\* line 499: return windows
WindowsReturn ==
    /\ wpc = "loop"
    /\ idx = Len(ch)
    /\ wpc' = "returned"
    /\ UNCHANGED <<ch, maxWindow, peakWidth, minWindow, idx, windows>>
    /\ UNCHANGED exceptWindows

WindowsNext ==
    \/ SetWindow
    \/ WindowsReturn

SpecWindows == WindowsInit /\ [][WindowsNext]_vars

\* ------------------------------------------------------------------------
\* decay, activity and get_decay_const, called one after another with the
\* same halfLife and the same number of quanta
\* ------------------------------------------------------------------------

\* decay(halfLife, n, t, units): n is a decimal float, the value is in
\* 1/Scale Bq (or atoms)
decay(halfLife, n, t, u) ==
    IF ~DecayAsserts(halfLife, n.m, t) \/ ~DecayConstAsserts(halfLife)
    THEN [exc |-> "AssertionError", value |-> 0]
    ELSE [exc |-> "none", value |-> Decay(halfLife, ToFix(ToBase(n, u)), t)]

\* activity(halfLife, n, t): the value is in 1/Scale decays per second
activity(halfLife, n, t) ==
    IF ~ActivityAsserts(halfLife, n.m, t) \/ ~DecayConstAsserts(halfLife)
    THEN [exc |-> "AssertionError", value |-> 0]
    ELSE [exc |-> "none", value |-> Activity(halfLife, ToFix(n), t)]

\* get_decay_const(halfLife): the value is in millionths per second
get_decay_const(halfLife) ==
    IF ~DecayConstAsserts(halfLife)
    THEN [exc |-> "AssertionError", value |-> 0]
    ELSE [exc |-> "none", value |-> GetDecayConst(halfLife)]

\* the units a caller may pass: the four the function knows, a string it
\* does not know and a value that is not a string
KnownUnits == {"uCi", "Ci", "Bq", "atoms"}
UnitValues == KnownUnits \cup {"Frogs", "<int 5>"}

\* the decay times a caller may pass
DecayTimes == {0 - 30, 0, 60, 120, 300}

\* q quanta of 0.37 as the n of a call with units u: an activity in uCi or
\* in Ci, else a number of Bq or atoms
QuantaIn(q, u) ==
    IF u \in {"uCi", "Ci"} THEN Quanta(q, u) ELSE Quanta(q, "Bq")

\* the state before the first call
DecayInit ==
    /\ OnlyDecay
    /\ dHalfLife \in {0 - 120, 0, 120, 600}
    /\ dQuanta \in {0 - 1, 0, 1}
    /\ dprev = NoCall
    /\ dlast = NoCall

\* a call decay(halfLife, n, t, units); units = "uCi" is also the call
\* that leaves units at its default
CallDecay ==
    /\ \E u \in UnitValues : \E t \in DecayTimes :
       \E r \in {decay(dHalfLife, QuantaIn(dQuanta, u), t, u)} :
          dlast' = [called |-> TRUE, func |-> "decay", units |-> u,
                    n |-> QuantaIn(dQuanta, u), t |-> t, exc |-> r.exc,
                    value |-> r.value]
    /\ dprev' = dlast
    /\ UNCHANGED <<dHalfLife, dQuanta>>
    /\ UNCHANGED exceptDecay

\* a call activity(halfLife, n, t)
CallActivity ==
    /\ \E t \in DecayTimes :
       \E r \in {activity(dHalfLife, QuantaIn(dQuanta, "atoms"), t)} :
          dlast' = [called |-> TRUE, func |-> "activity", units |-> "atoms",
                    n |-> QuantaIn(dQuanta, "atoms"), t |-> t,
                    exc |-> r.exc, value |-> r.value]
    /\ dprev' = dlast
    /\ UNCHANGED <<dHalfLife, dQuanta>>
    /\ UNCHANGED exceptDecay

\* a call get_decay_const(halfLife)
CallGetDecayConst ==
    /\ \E r \in {get_decay_const(dHalfLife)} :
          dlast' = [called |-> TRUE, func |-> "get_decay_const",
                    units |-> "", n |-> [m |-> 0, e |-> 0], t |-> 0,
                    exc |-> r.exc, value |-> r.value]
    /\ dprev' = dlast
    /\ UNCHANGED <<dHalfLife, dQuanta>>
    /\ UNCHANGED exceptDecay

DecayNext ==
    \/ CallDecay
    \/ CallActivity
    \/ CallGetDecayConst

SpecDecay == DecayInit /\ [][DecayNext]_vars

\* ------------------------------------------------------------------------
\* ge_peakcounts, red_chisq and the uncertainties of ge_peakfit
\* ------------------------------------------------------------------------

\* a number of hundredths as a fixed-point value
FromHundredths(x) == (x * Scale) \div 100

\* gamma(p5)*gamma(4-p5) in hundredths, p5 in halves: 1.875*pi at 1/2 and
\* 7/2, 2 at 1 and 3, 0.375*pi at 3/2 and 5/2, 1 at 2, -13.125*pi at 9/2
GammaProduct(h) ==
    CASE h = 1 -> 589
      [] h = 2 -> 200
      [] h = 3 -> 118
      [] h = 4 -> 100
      [] h = 5 -> 118
      [] h = 6 -> 200
      [] h = 7 -> 589
      [] h = 9 -> 0 - 4123

\* line 377: t1 = p1*p3*(2*np.pi)**0.5
GaussArea(p1, p3) == FromHundredths(p1 * p3 * Sqrt2Pi)

\* line 378: t2 = p3*p4*(gamma(p5)*gamma(4-p5))/6.
SkewArea(p3, p4, p5) == FromHundredths((p3 * p4 * GammaProduct(p5)) \div 6)

\* variant of ge_peakcounts: the skew term is never discarded
ge_peakcounts_sum(p1, p3, p4, p5) == GaussArea(p1, p3) + SkewArea(p3, p4, p5)

\* lines 377-382
ge_peakcounts(p1, p3, p4, p5) ==
    IF SkewArea(p3, p4, p5) > GaussArea(p1, p3)
    THEN GaussArea(p1, p3)
    ELSE GaussArea(p1, p3) + SkewArea(p3, p4, p5)

\* variant of DefaultStd: a channel with no counts keeps the uncertainty 0
DefaultStdZeroKept(y) == [i \in 1..Len(y) |-> FixSqrt(y[i] * Scale)]

\* lines 424-425: np.sqrt(counts) with the zeros set to 1
DefaultStd(y) ==
    [i \in 1..Len(y) |->
        IF FixSqrt(y[i] * Scale) = 0 THEN Scale ELSE FixSqrt(y[i] * Scale)]

\* lines 423-425: the countStd ge_peakfit goes on with
UsedStd(y, std) == IF Len(std) # Len(y) THEN DefaultStd(y) ELSE std

\* one term of the sums of red_chisq; a division by zero gives inf or nan
ChiTerm(y, m, sd, weighted) ==
    IF ~weighted THEN (y - m) * (y - m) * Scale
    ELSE IF sd = 0 THEN Inf
    ELSE ((((y - m) * Scale * Scale) \div sd) * (((y - m) * Scale * Scale) \div sd)) \div Scale

\* a sum that stays inf (or nan) once a term is
AddInf(a, b) == IF a >= Inf \/ b >= Inf THEN Inf ELSE a + b

RECURSIVE ChiSum(_, _, _, _, _)
ChiSum(yData, yMod, standDev, weighted, k) ==
    IF k = 0 THEN 0
    ELSE AddInf(ChiSum(yData, yMod, standDev, weighted, k - 1),
                ChiTerm(yData[k], yMod[k],
                        IF weighted THEN standDev[k] ELSE 0, weighted))

\* chisq / nu
Reduced(chisq, nu) ==
    IF nu = 0 \/ chisq >= Inf THEN Inf ELSE chisq \div nu

\* Stats.red_chisq: chisq / nu, inf (or nan) when nu is 0
red_chisq(yData, yMod, standDev, freeParams) ==
    Reduced(ChiSum(yData, yMod, standDev, Len(standDev) = Len(yData),
                   Len(yData)),
            Len(yData) - freeParams)

\* ------------------------------------------------------------------------
\* ge_peakfit
\* ------------------------------------------------------------------------

\* the counts of the region of interest a caller may pass
PeakSpectra ==
    { <<4, 4, 9, 25, 100, 400, 100, 25, 9, 4>>,
      <<0, 1, 0, 4, 16, 100, 16, 4, 0, 0>>,
      <<1, 0, 4, 9, 36, 100, 36, 9, 4, 0, 1>> }

\* the countStd a caller may pass with the counts y: none, one as long as y
\* (the same everywhere, or sqrt(y) with its zeros), one that is shorter
StdArgs(y) ==
    { <<>>,
      [i \in 1..Len(y) |-> 2 * Scale],
      [i \in 1..Len(y) |-> FixSqrt(y[i] * Scale)],
      [i \in 1..(Len(y) - 1) |-> Scale] }

\* amplitudes the gaussian fit of lines 418-421 may give (it has no bounds)
Amplitudes == {0 - 10, 10, 100}

\* what curve_fit may return within bounds=(0, 5E5): width p3, skew
\* amplitude p4, skew range p5 in halves, and the difference between the
\* model counts and the counts
PoptValues ==
    [p3 : {1, 2}, p4 : {0, 50, 400}, p5 : {1, 2, 4, 7, 9}, off : {0, 2}]

PeakInit ==
    /\ OnlyPeak
    /\ pkCounts \in PeakSpectra
    /\ pkStdArg \in StdArgs(pkCounts)
    /\ pkAmp = 0
    /\ pkStd = <<>>
    /\ pkCalls = 0
    /\ pkPopt = NoPopt
    /\ pkpc = "called"
    /\ pkResult = NoPeakResult

\* lines 417-425: the gaussian fit and the uncertainties
InitialEstimate ==
    /\ pkpc = "called"
    /\ pkAmp' \in Amplitudes
    /\ pkStd' = UsedStd(pkCounts, pkStdArg)
    /\ pkpc' = "seeded"
    /\ UNCHANGED <<pkCounts, pkStdArg, pkCalls, pkPopt, pkResult>>
    /\ UNCHANGED exceptPeak

\* lines 427-433: curve_fit returns
CurveFitReturns ==
    /\ pkpc = "seeded"
    /\ pkCalls' = pkCalls + 1
    /\ \E r \in PoptValues :
          pkPopt' = [p3 |-> r.p3, p4 |-> r.p4, p5 |-> r.p5,
                     model |-> [i \in 1..Len(pkCounts) |-> pkCounts[i] + r.off],
                     sigma |-> pkStd]
    /\ pkpc' = "fitted"
    /\ UNCHANGED <<pkCounts, pkStdArg, pkAmp, pkStd, pkResult>>
    /\ UNCHANGED exceptPeak

\* variant of CurveFitRaises: the error is caught and the fit tried again
CurveFitRaisesRetried ==
    /\ pkpc = "seeded"
    /\ pkCalls < 2
    /\ pkCalls' = pkCalls + 1
    /\ UNCHANGED <<pkCounts, pkStdArg, pkAmp, pkStd, pkPopt, pkpc, pkResult>>
    /\ UNCHANGED exceptPeak

\* lines 427-431: curve_fit raises RuntimeError (no optimum found); nothing
\* catches it
CurveFitRaises ==
    /\ pkpc = "seeded"
    /\ pkCalls' = pkCalls + 1
    /\ pkpc' = "raised"
    /\ pkResult' = [NoPeakResult EXCEPT !.exc = "RuntimeError"]
    /\ UNCHANGED <<pkCounts, pkStdArg, pkAmp, pkStd, pkPopt>>
    /\ UNCHANGED exceptPeak

\* lines 434-443: the peak area, its square root (math.sqrt raises
\* ValueError on a negative number) and the reduced chi-square
PeakReturn ==
    /\ pkpc = "fitted"
    /\ \E area \in {ge_peakcounts(pkAmp, pkPopt.p3, pkPopt.p4, pkPopt.p5)} :
          IF area < 0
          THEN /\ pkResult' = [NoPeakResult EXCEPT !.exc = "ValueError",
                                                   !.peakCounts = area]
               /\ pkpc' = "raised"
          ELSE /\ pkResult' = [exc |-> "none", peakCounts |-> area,
                               peakStd |-> FixSqrt(area),
                               redChiSq |-> red_chisq(pkCounts, pkPopt.model,
                                                      pkStd, FreeParams)]
               /\ pkpc' = "returned"
    /\ UNCHANGED <<pkCounts, pkStdArg, pkAmp, pkStd, pkCalls, pkPopt>>
    /\ UNCHANGED exceptPeak

PeakNext ==
    \/ InitialEstimate
    \/ CurveFitReturns
    \/ CurveFitRaises
    \/ PeakReturn

SpecPeak == PeakInit /\ [][PeakNext]_vars

\* ------------------------------------------------------------------------
\* find_best_fit
\* ------------------------------------------------------------------------

\* what lines 239-248 do with a function: curve_fit and red_chisq succeed
\* and give the reduced chi-square chi, or curve_fit raises TypeError or
\* RuntimeError
FitOutcomes ==
    { [exc |-> "none", chi |-> c] : c \in {1, 2, 3} }
    \cup { [exc |-> e, chi |-> 0] : e \in {"TypeError", "RuntimeError"} }

RECURSIVE FuncLists(_)
FuncLists(n) ==
    IF n = 0 THEN { <<>> }
    ELSE FuncLists(n - 1)
         \cup { Append(l, o) : l \in { m \in FuncLists(n - 1) : Len(m) = n - 1 },
                               o \in FitOutcomes }

\* lines 264-265: the tuple returned when no fit was found
NoFitFound == [func |-> <<>>, params |-> <<>>, covar |-> <<>>, chi |-> 0]

\* lines 239-254: the locals after the inner try block for function k; a
\* function whose fit raises leaves redChiSq, popt and pcov as they were
AfterTry(l, k) ==
    IF fbFuncs[k].exc = "none"
    THEN [l EXCEPT !.redChiSq = <<fbFuncs[k].chi>>, !.popt = <<k>>,
                   !.pcov = <<k>>]
    ELSE l

\* lines 233-236
FitInit ==
    /\ OnlyFit
    /\ fbFuncs \in FuncLists(MaxFuncs)
    /\ fbi = 1
    /\ fbLocals = NoLocals
    /\ bestChiSq = Inf
    /\ fbpc = "loop"
    /\ fbResult = NoFitResult

\* lines 236-261, one pass of the loop; reading redChiSq while it is unbound
\* (line 257) raises UnboundLocalError, which lines 263-265 turn into the
\* no-fit tuple
TryFunc ==
    /\ fbpc = "loop"
    /\ fbi <= Len(fbFuncs)
    /\ \E l \in {AfterTry(fbLocals, fbi)} :
          IF l.redChiSq = <<>>
          THEN /\ fbResult' = NoFitFound
               /\ fbpc' = "returned"
               /\ UNCHANGED <<fbi, fbLocals, bestChiSq>>
          ELSE /\ IF l.redChiSq[1] < bestChiSq
                  THEN /\ fbLocals' = [l EXCEPT !.bestFunc = <<fbi>>,
                                                !.params = l.popt,
                                                !.covar = l.pcov]
                       /\ bestChiSq' = l.redChiSq[1]
                  ELSE /\ fbLocals' = l
                       /\ UNCHANGED bestChiSq
               /\ fbi' = fbi + 1
               /\ UNCHANGED <<fbpc, fbResult>>
    /\ UNCHANGED fbFuncs
    /\ UNCHANGED exceptFit

\* line 262 after the loop; with bestFunc unbound it raises
\* UnboundLocalError and lines 263-265 return the no-fit tuple
FitReturn ==
    /\ fbpc = "loop"
    /\ fbi > Len(fbFuncs)
    /\ fbResult' = IF fbLocals.bestFunc = <<>> THEN NoFitFound
                   ELSE [func |-> fbLocals.bestFunc,
                         params |-> fbLocals.params,
                         covar |-> fbLocals.covar, chi |-> bestChiSq]
    /\ fbpc' = "returned"
    /\ UNCHANGED <<fbFuncs, fbi, fbLocals, bestChiSq>>
    /\ UNCHANGED exceptFit

FitNext ==
    \/ TryFunc
    \/ FitReturn

SpecFit == FitInit /\ [][FitNext]_vars

\* ------------------------------------------------------------------------
\* Definitions used by the properties
\* ------------------------------------------------------------------------

\* all orderings of the set S, as a set
PermSet(S) ==
    { p \in [1..Cardinality(S) -> S] :
        \A i, j \in 1..Cardinality(S) : p[i] = p[j] => i = j }

RECURSIVE Factorial(_)
Factorial(n) == IF n <= 1 THEN 1 ELSE n * Factorial(n - 1)

\* the schedule of one order computed on its own, from the table alone:
\* lines 716-791 folded over the order (the singleton set binds the result
\* of one foil before the next foil is counted)
RECURSIVE ScheduleFrom(_, _, _)
ScheduleFrom(order, d, total) ==
    IF order = <<>> THEN [df |-> d, total |-> total]
    ELSE CHOOSE end \in
             { ScheduleFrom(Tail(order), res.df, res.total) :
                   res \in {CountFoilBody(d, total, Head(order))} } : TRUE

ScheduleOf(order) == ScheduleFrom(order, FreshFrame, 0)

\* the count time a foil carries in frame d
GroupTime(d, f) == d[Head(GroupRows(f))].countTime

RECURSIVE SumGroupTimes(_, _)
SumGroupTimes(d, fs) ==
    IF fs = <<>> THEN 0
    ELSE GroupTime(d, Head(fs)) + SumGroupTimes(d, Tail(fs))

\* the foils counted so far in the running permutation
CountedFoils == { orders[permIdx][j] : j \in 1..(pos - 1) }

\* the largest of the times lines 752-768 assigned to the rows of foil f
MaxSolverTime(f) ==
    LET ts == { solverTime[c] : c \in { r \in Channels : foilParams[r].foil = f } }
    IN CHOOSE t \in ts : \A u \in ts : u <= t

\* the smallest total among the permutations evaluated
MinEvaluated ==
    LET ts == { evaluated[i].total : i \in 1..Len(evaluated) }
    IN CHOOSE t \in ts : \A u \in ts : t <= u

\* the first permutation evaluated that has the smallest total
FirstMinimal ==
    CHOOSE i \in 1..Len(evaluated) :
        /\ evaluated[i].total = MinEvaluated
        /\ \A j \in 1..(i - 1) : evaluated[j].total # MinEvaluated

\* the steps from the current state to the return when every permutation
\* is evaluated in full: each one is a StartOrder, a CountFoil per foil and
\* a CompareBest
StepsLeft ==
    LET k == Cardinality(Foils)
        n == Factorial(k)
    IN CASE pc = "convert" -> 2 + n * (k + 2)
         [] pc = "permute" -> 1 + (n - permIdx + 1) * (k + 2)
         [] pc = "count"   -> 1 + (n - permIdx) * (k + 2) + 1 + (k - pos + 1)
         [] pc = "compare" -> 1 + (n - permIdx) * (k + 2) + 1
         [] OTHER -> 0

\* ------------------------------------------------------------------------
\* Properties of optimal_count_plan
\* ------------------------------------------------------------------------

\* C1: the returned totalTime is the minimum, over all permutations of the
\* distinct foils, of the total of the schedule computed for that
\* permutation on its own from the initial activities; the returned order
\* is a permutation that attains it.
C1_ReturnsMinimumTotal ==
    pc = "done" =>
        /\ bestOrder \in PermSet(Foils)
        /\ ScheduleOf(bestOrder).total = totalTime
        /\ \A o \in PermSet(Foils) : ScheduleOf(o).total >= totalTime

\* a plan of three foils whose best order is not the first one tried
C1_Witness ==
    /\ pc = "done"
    /\ Cardinality(Foils) = 3
    /\ bestOrder # orders[1]
    /\ \E i \in 1..Len(evaluated) : evaluated[i].total > totalTime

\* C2: a permutation in which the solver rejected a row's inputs
\* (countActivity - 3*countActUncert < 0, the background being valid) has
\* a total of at least the sentinel 1E99.
C2_SentinelEntersTotal ==
    (pc = "compare" /\ background >= 0 /\ rejected # {}) =>
        tmpTotal >= Sentinel

\* C3: counting a foil decays, by its count time plus handleTime, exactly
\* the rows of the foils that come later in the permutation; the working
\* activity and uncertainty of every other row stay as they were (stated
\* for the calls with a valid background).
C3_DecaysOnlyLaterFoils ==
    [][(pc = "count" /\ pc' \in {"count", "compare"} /\ background >= 0) =>
         LET order == orders[permIdx]
             ct == GroupTime(df', order[pos])
         IN \A c \in Channels :
              IF \E j \in (pos + 1)..Len(order) : order[j] = foilParams[c].foil
              THEN /\ df'[c].countActivity =
                        Decay(foilParams[c].halfLife, df[c].countActivity,
                              ct + handleTime)
                   /\ df'[c].countActUncert =
                        Decay(foilParams[c].halfLife, df[c].countActUncert,
                              ct + handleTime)
              ELSE /\ df'[c].countActivity = df[c].countActivity
                   /\ df'[c].countActUncert = df[c].countActUncert]_vars

\* C4: the count time of every counted foil is the maximum of the count
\* times computed for all of its rows, and every row of the foil carries it
\* (stated for the calls with a valid background).
C4_GroupTimeIsMaximum ==
    (pc \in {"count", "compare"} /\ background >= 0) =>
        \A f \in CountedFoils :
            \A c \in Channels :
                foilParams[c].foil = f =>
                    /\ solverTime[c] # NoTime
                    /\ df[c].countTime = MaxSolverTime(f)

\* C5: the total of a permutation is the sum of the count times of its
\* foils; handleTime is no part of it.
C5_TotalIsSumOfGroupTimes ==
    pc = "compare" => tmpTotal = SumGroupTimes(df, orders[permIdx])

\* a permutation of several foils, with a handling time, some count time
C5_Witness ==
    /\ pc = "compare"
    /\ handleTime > 0
    /\ Len(orders[permIdx]) >= 2
    /\ tmpTotal > 0
    /\ tmpTotal < Sentinel

\* C6: among the permutations with the smallest total, the one returned is
\* the first in the order of enumeration, with its own assignment.
C6_FirstMinimalWins ==
    pc = "done" =>
        /\ totalTime = MinEvaluated
        /\ bestOrder = evaluated[FirstMinimal].order
        /\ bestDF = ScheduleOf(evaluated[FirstMinimal].order).df

\* a plan in which a later permutation ties with the one returned
C6_Witness ==
    /\ pc = "done"
    /\ \E i \in 1..Len(evaluated) :
          /\ i > FirstMinimal
          /\ evaluated[i].total = totalTime
          /\ evaluated[i].order # bestOrder
    /\ \E i \in 1..Len(evaluated) : evaluated[i].total > totalTime

\* C7: every permutation starts from the initial activities and
\* uncertainties with all count times zero, and its total and assignment
\* are those of the schedule computed for it on its own.
C7_PermutationsIndependent ==
    /\ (pc = "count" /\ pos = 1) =>
          /\ tmpTotal = 0
          /\ \A c \in Channels :
                /\ df[c].countActivity = ToFix(foilParams[c].initActivity)
                /\ df[c].countActUncert = ToFix(foilParams[c].activityUncert)
                /\ df[c].countTime = 0
    /\ pc = "compare" =>
          \E alone \in {ScheduleOf(orders[permIdx])} :
              /\ tmpTotal = alone.total
              /\ df = alone.df

\* a permutation starts after an earlier one decayed the working columns
C7_Witness ==
    /\ pc = "count"
    /\ pos = 1
    /\ permIdx > 1
    /\ \E c \in Channels :
          bestDF[c].countActivity # ToFix(foilParams[c].initActivity)

\* C8: after the call the caller's table is as it was before the call.
C8_TableUnchanged ==
    pc = "done" => foilParams = callerTable

\* C9: with an invalid global parameter, here a negative background, the
\* call fails; it returns no plan computed with that parameter.
C9_NegativeBackgroundFailsFast ==
    background < 0 => pc # "done"

\* C10: every permutation of the distinct foils is evaluated exactly once,
\* with no early exit, and the call ends with a result: no step raises, a
\* returned plan has evaluated each permutation once, and every step
\* brings the return one step nearer.
C10_AllPermutationsOnce ==
    /\ [](pc # "raised")
    /\ [](pc = "done" =>
            /\ Len(evaluated) = Factorial(Cardinality(Foils))
            /\ { evaluated[i].order : i \in 1..Len(evaluated) } = PermSet(Foils))
    /\ [][StepsLeft' = StepsLeft - 1]_vars

\* a plan of three foils returned although the solver rejected a row
C10_Witness ==
    /\ pc = "done"
    /\ Cardinality(Foils) = 3
    /\ rejected # {}
    /\ totalTime > 0

\* ------------------------------------------------------------------------
\* Whole minutes
\* ------------------------------------------------------------------------

\* the rows of foil f
RowsOf(f) == { c \in Channels : foilParams[c].foil = f }

\* the solver accepts every row of the group and finds a finite time
Feasible(raw, f) ==
    \A c \in RowsOf(f) : raw[c].exc = "none" /\ raw[c].tf < Sentinel

OutOfRange(a) ==
    \/ a.sigma <= 0
    \/ a.sigma > Scale
    \/ a.halfLife <= 0
    \/ a.init < 0
    \/ a.efficiency <= 0
    \/ a.efficiency > Scale
    \/ a.background < 0

\* C12: a call with an argument out of range (sigma or efficiency outside
\* (0,1], halfLife <= 0, init < 0 or background < 0) ends with an
\* AssertionError, before any pass of the loop and without a returned value.
C12_OutOfRangeRejected ==
    (fpc \in {"returned", "raised"} /\ OutOfRange(args))
        => (fpc = "raised" /\ result.exc = "AssertionError" /\ passes = 0)

\* C13: when the function returns a time that is not the sentinel, the last
\* two estimates of tf differ by at most precision in absolute value, also
\* when the last estimate is the smaller one.
C13_LastStepWithinPrecision ==
    (fpc = "returned" /\ result.tf # Sentinel /\ ~OutOfRange(args))
        => (tf - prevt <= args.precision /\ prevt - tf <= args.precision)

\* C14: a call whose arguments pass the assertions never raises, and when
\* one of the returned times is the sentinel or infinite, both are the
\* sentinel.
C14_DegeneracyGivesSentinelPair ==
    SolverAsserts(args.sigma, args.halfLife, args.init, args.efficiency,
                  args.background)
        => /\ fpc # "raised"
           /\ (fpc = "returned" /\ (result.tf >= Sentinel
                                     \/ result.tb >= Sentinel))
                 => (result.tf = Sentinel /\ result.tb = Sentinel)

\* ------------------------------------------------------------------------
\* get_peak_windows: the windows returned
\* ------------------------------------------------------------------------

\* the two halves of the window returned for the k-th peak (1-based)
HalfLow(k) == ch[k] - windows[ch[k]][1]
HalfHigh(k) == windows[ch[k]][2] - ch[k]

\* the half-window facing a neighbour at distance d
ShrinkRule(d) ==
    IF d >= maxWindow + peakWidth THEN maxWindow
    ELSE IF d - peakWidth > minWindow THEN d - peakWidth ELSE minWindow

\* the k-th and the next peak are closer than maxWindow + peakWidth
Crowded(k) == ch[k + 1] - ch[k] < maxWindow + peakWidth

\* every neighbour of the k-th peak is farther than 2*maxWindow + peakWidth
Isolated(k) ==
    /\ k > 1 => ch[k] - ch[k - 1] > 2 * maxWindow + peakWidth
    /\ k < Len(ch) => ch[k + 1] - ch[k] > 2 * maxWindow + peakWidth

\* C15: each side of a returned window that faces a neighbouring peak at
\* distance d is maxWindow wide when d >= maxWindow + peakWidth and
\* max(d - peakWidth, minWindow) wide when d < maxWindow + peakWidth; with
\* the defaults the peak 210 between 195 and 291 gets the window (190, 276).
C15_ShrinkRule ==
    wpc = "returned" =>
        /\ \A k \in 1..Len(ch) :
              /\ k > 1 => HalfLow(k) = ShrinkRule(ch[k] - ch[k - 1])
              /\ k < Len(ch) => HalfHigh(k) = ShrinkRule(ch[k + 1] - ch[k])
        /\ (ch = <<195, 210, 291>> /\ maxWindow = 100 /\ peakWidth = 15
               /\ minWindow = 20) => windows[210] = <<190, 276>>

\* a peak between a neighbour so close that the floor of minWindow applies
\* and a neighbour far enough for the full maxWindow
C15_Witness ==
    /\ wpc = "returned"
    /\ Len(ch) = 3
    /\ ch[2] - ch[1] - peakWidth < minWindow
    /\ ch[3] - ch[2] >= maxWindow + peakWidth
    /\ windows[ch[2]] = <<ch[2] - minWindow, ch[2] + maxWindow>>
    /\ minWindow < maxWindow

\* C16: a peak all of whose neighbours are farther than
\* 2*maxWindow + peakWidth, or that has no neighbour, gets exactly the
\* window (peak - maxWindow, peak + maxWindow).
C16_IsolatedPeakFullWindow ==
    wpc = "returned" =>
        \A k \in 1..Len(ch) :
            Isolated(k) =>
                windows[ch[k]] = <<ch[k] - maxWindow, ch[k] + maxWindow>>

\* C17: the first peak's lower bound is peak - maxWindow and the last
\* peak's upper bound is peak + maxWindow, also when the list has one peak.
C17_OuterSidesUnshrunk ==
    (wpc = "returned" /\ ch # <<>>) =>
        /\ HalfLow(1) = maxWindow
        /\ HalfHigh(Len(ch)) = maxWindow

\* C18, as claimed: every returned window is at least 2*minWindow wide,
\* whatever the parameters.
C18_WidthAtLeastTwiceMin ==
    wpc = "returned" =>
        \A c \in DOMAIN windows :
            windows[c][2] - windows[c][1] >= 2 * minWindow

\* C18, amended: when minWindow <= maxWindow, every returned window is at
\* least 2*minWindow wide.
C18_WidthAtLeastTwiceMinAmended ==
    (wpc = "returned" /\ minWindow <= maxWindow) =>
        \A c \in DOMAIN windows :
            windows[c][2] - windows[c][1] >= 2 * minWindow

\* a peak crowded on both sides, whose window is exactly 2*minWindow wide
C18_Witness ==
    /\ wpc = "returned"
    /\ minWindow <= maxWindow
    /\ Len(ch) = 3
    /\ ch[2] - ch[1] - peakWidth < minWindow
    /\ ch[3] - ch[2] - peakWidth < minWindow
    /\ windows[ch[2]][2] - windows[ch[2]][1] = 2 * minWindow

\* C19, as claimed: the windows of two adjacent crowded peaks p < q do not
\* overlap: highChannel(p) <= lowChannel(q).
C19_CrowdedWindowsDisjoint ==
    wpc = "returned" =>
        \A k \in 1..(Len(ch) - 1) :
            Crowded(k) => windows[ch[k]][2] <= windows[ch[k + 1]][1]

\* C19, amended: the windows of two adjacent crowded peaks p < q at
\* distance d do not overlap exactly when 2*minWindow <= d <= 2*peakWidth;
\* at every other distance they overlap.
C19_CrowdedWindowsDisjointAmended ==
    wpc = "returned" =>
        \A k \in 1..(Len(ch) - 1) :
            Crowded(k) =>
                (windows[ch[k]][2] <= windows[ch[k + 1]][1]
                    <=> (/\ 2 * minWindow <= ch[k + 1] - ch[k]
                         /\ ch[k + 1] - ch[k] <= 2 * peakWidth))

\* three crowded peaks: the windows of the first two are disjoint, the
\* windows of the last two overlap
C19_Witness ==
    /\ wpc = "returned"
    /\ Len(ch) = 3
    /\ Crowded(1)
    /\ Crowded(2)
    /\ windows[ch[1]][2] <= windows[ch[2]][1]
    /\ windows[ch[2]][2] > windows[ch[3]][1]

\* C20: every returned window has its peak strictly inside:
\* lowChannel < peakChannel < highChannel, for positive maxWindow and
\* minWindow.
C20_PeakInsideWindow ==
    (wpc = "returned" /\ maxWindow > 0 /\ minWindow > 0) =>
        \A c \in DOMAIN windows : windows[c][1] < c /\ c < windows[c][2]

\* a peak whose neighbours on both sides are closer than peakWidth, so
\* that both sides rest on the floor of minWindow
C20_Witness ==
    /\ wpc = "returned"
    /\ maxWindow > 0
    /\ minWindow > 0
    /\ Len(ch) = 3
    /\ ch[2] - ch[1] < peakWidth
    /\ ch[3] - ch[2] < peakWidth
    /\ windows[ch[2]] = <<ch[2] - minWindow, ch[2] + minWindow>>

\* ------------------------------------------------------------------------
\* decay, activity, get_decay_const
\* ------------------------------------------------------------------------

\* the call c was made with arguments the three assertions accept
ValidCall(c) == dHalfLife > 0 /\ c.n.m >= 0 /\ c.t >= 0

\* c is a call of decay with units u
DecayCallWith(c, u) == c.called /\ c.func = "decay" /\ c.units = u

\* of two calls of decay with the same arguments but the times, the later
\* time does not give the larger value
NonIncreasing(u) ==
    (/\ DecayCallWith(dprev, u) /\ DecayCallWith(dlast, u)
     /\ ValidCall(dprev) /\ ValidCall(dlast)
     /\ dprev.t <= dlast.t)
    => (/\ dprev.exc = "none" /\ dlast.exc = "none"
        /\ dlast.value <= dprev.value)

\* C21 as stated: with halfLife > 0, n >= 0 and t >= 0, decay with units
\* left at the default "uCi" is non-increasing in t, and its value at
\* t = 0 is n itself.
C21_DecayFromN ==
    /\ NonIncreasing("uCi")
    /\ (DecayCallWith(dlast, "uCi") /\ ValidCall(dlast) /\ dlast.t = 0)
       => (dlast.exc = "none" /\ dlast.value = ToFix(dlast.n))

\* C21, amended: with halfLife > 0, n >= 0 and t >= 0, decay with units left
\* at the default "uCi" is non-increasing in t, and its value at t = 0 is n
\* converted to Bq, n * 1E-6 * 3.7E10; the value at t = 0 is n itself for the
\* units "Bq" and "atoms".
C21_DecayFromNAmended ==
    /\ NonIncreasing("uCi")
    /\ (DecayCallWith(dlast, "uCi") /\ ValidCall(dlast) /\ dlast.t = 0)
       => (/\ dlast.exc = "none"
           /\ dlast.value = ToFix(MulDec(dlast.n, CiMant, MicroExp)))
    /\ \A u \in {"Bq", "atoms"} :
          (DecayCallWith(dlast, u) /\ ValidCall(dlast) /\ dlast.t = 0)
          => (dlast.exc = "none" /\ dlast.value = ToFix(dlast.n))

\* two calls with the default units, of a positive n: one at t = 0 and a
\* later one that gives less than the first
C21_Witness ==
    /\ DecayCallWith(dprev, "uCi") /\ DecayCallWith(dlast, "uCi")
    /\ ValidCall(dprev) /\ ValidCall(dlast)
    /\ dprev.n.m > 0
    /\ dprev.t = 0
    /\ dprev.value # ToFix(dprev.n)
    /\ dlast.t > 0
    /\ dlast.value < dprev.value

\* C22: for units that are none of "uCi", "Ci", "Bq" and "atoms", a string
\* or not, decay raises no error on arguments the assertions accept, and
\* its outcome is the outcome of the call with units "Bq" and the same
\* halfLife, n and t.
C22_UnknownUnitsAsBq ==
    \A u \in UnitValues \ KnownUnits :
       /\ (DecayCallWith(dlast, u) /\ ValidCall(dlast))
          => dlast.exc = "none"
       /\ (/\ DecayCallWith(dlast, u) /\ DecayCallWith(dprev, "Bq")
           /\ dprev.n = dlast.n /\ dprev.t = dlast.t)
          => (dlast.exc = dprev.exc /\ dlast.value = dprev.value)

\* a call with units "Bq" and then the same call with a value of units that
\* is not a string, of a positive n after one half life
C22_Witness ==
    /\ DecayCallWith(dprev, "Bq") /\ DecayCallWith(dlast, "<int 5>")
    /\ dprev.n = dlast.n /\ dprev.t = dlast.t
    /\ dlast.t = dHalfLife
    /\ dlast.exc = "none"
    /\ dlast.value > 0

\* C23: get_decay_const raises when halfLife <= 0; activity and decay raise
\* when halfLife <= 0, n < 0 or t < 0; the raising call has no value.
C23_InvalidArgumentsRaise ==
    /\ (dlast.called /\ dlast.func = "get_decay_const" /\ dHalfLife <= 0)
       => (dlast.exc = "AssertionError" /\ dlast.value = 0)
    /\ (dlast.called /\ dlast.func \in {"decay", "activity"}
        /\ ~ValidCall(dlast))
       => (dlast.exc = "AssertionError" /\ dlast.value = 0)

\* a call of decay with a negative n, a positive halfLife and t >= 0, which
\* raised
C23_Witness ==
    /\ dlast.called /\ dlast.func = "decay"
    /\ dHalfLife > 0 /\ dlast.n.m < 0 /\ dlast.t >= 0
    /\ dlast.exc = "AssertionError"

\* ------------------------------------------------------------------------
\* ge_peakcounts, ge_peakfit
\* ------------------------------------------------------------------------

\* ge_peakfit has called ge_peakcounts (line 434)
AreaTaken == pkpc = "returned" \/ (pkpc = "raised" /\ pkResult.exc = "ValueError")

\* the two terms of the area, from the parameters the area was taken with
T1 == GaussArea(pkAmp, pkPopt.p3)
T2 == SkewArea(pkPopt.p3, pkPopt.p4, pkPopt.p5)

\* C24: the area is the gaussian term t1 alone when the skew term t2 is
\* larger than t1, and t1 + t2 otherwise; so for t1 >= 0 the area is never
\* more than 2*t1.
C24_SkewDiscardedAboveGauss ==
    AreaTaken =>
       /\ (T2 > T1) => pkResult.peakCounts = T1
       /\ (T2 <= T1) => pkResult.peakCounts = T1 + T2
       /\ (T1 >= 0) => pkResult.peakCounts <= 2 * T1

\* a fit that returned with a skew term above a positive gaussian term
C24_Witness ==
    /\ pkpc = "returned"
    /\ T1 > 0
    /\ T2 > T1
    /\ pkResult.peakCounts = T1

\* C25: with amplitude >= 0 and width >= 0 the area is never negative, and
\* the square root ge_peakfit takes of it is defined (no ValueError).
C25_AreaNeverNegative ==
    (pkpc \in {"returned", "raised"} /\ pkCalls = 1 /\ pkAmp >= 0
     /\ pkPopt.p3 >= 0 /\ pkResult.exc # "RuntimeError")
    => (pkResult.exc = "none" /\ pkResult.peakCounts >= 0)

\* C26: curve_fit is called once in a call of ge_peakfit; when it raises,
\* the call ends with that error, with one call of curve_fit made and
\* without a result; a call that returns has made one call of curve_fit.
C26_SolverCalledOnce ==
    /\ pkCalls <= 1
    /\ (pkCalls = 1 /\ pkPopt = NoPopt)
       => (/\ pkpc = "raised"
           /\ pkResult = [NoPeakResult EXCEPT !.exc = "RuntimeError"])
    /\ (pkpc = "returned") => (pkCalls = 1 /\ pkPopt # NoPopt)

\* curve_fit raised and the call ended with RuntimeError
C26_Witness ==
    /\ pkpc = "raised"
    /\ pkResult.exc = "RuntimeError"
    /\ pkCalls = 1
    /\ pkPopt = NoPopt

\* sd is the square root of the count y, or 1 for a count of 0
IsSqrtOrOne(sd, y) ==
    IF y = 0 THEN sd = Scale
    ELSE /\ sd > 0
         /\ sd * sd <= y * Scale * Scale
         /\ (sd + 1) * (sd + 1) > y * Scale * Scale

\* the uncertainties the claim expects ge_peakfit to use
ExpectedStd(sd) ==
    IF Len(pkStdArg) = Len(pkCounts) THEN sd = pkStdArg
    ELSE /\ Len(sd) = Len(pkCounts)
         /\ \A i \in 1..Len(sd) : IsSqrtOrOne(sd[i], pkCounts[i])

\* C27: with no countStd, or one whose length is not that of counts, the
\* uncertainties passed to curve_fit and used in the reduced chi-square are
\* sqrt(counts) with 1 in the channels without counts, so none of them is
\* 0; a countStd as long as counts is used as it is.
C27_DefaultUncertainties ==
    /\ (pkpc \in {"fitted", "returned"}) => ExpectedStd(pkPopt.sigma)
    /\ (pkpc \in {"seeded", "fitted", "returned"}) => ExpectedStd(pkStd)
    /\ (pkpc = "returned" /\ Len(pkStdArg) # Len(pkCounts))
       => (/\ \A i \in 1..Len(pkStd) : pkStd[i] # 0
           /\ pkResult.redChiSq < Inf
           /\ pkResult.redChiSq
                 = red_chisq(pkCounts, pkPopt.model, pkPopt.sigma, FreeParams))

\* a call without countStd, on counts with a channel of 0, that returned
C27_Witness ==
    /\ pkpc = "returned"
    /\ pkStdArg = <<>>
    /\ \E i \in 1..Len(pkCounts) : pkCounts[i] = 0 /\ pkStd[i] = Scale
    /\ \E i \in 1..Len(pkCounts) : pkCounts[i] > 1 /\ pkStd[i] > Scale
    /\ pkResult.redChiSq > 0

\* ------------------------------------------------------------------------
\* find_best_fit
\* ------------------------------------------------------------------------

\* the positions of the functions whose fit succeeded
Succeeded == { k \in 1..Len(fbFuncs) : fbFuncs[k].exc = "none" }

\* C28: find_best_fit returns a function whose fit succeeded and whose
\* reduced chi-square is the smallest of those that succeeded, with the
\* parameters and the covariance of that function, wherever the functions
\* whose fit failed stand in the list; it returns (None, [], [], 0.0) only
\* when no fit succeeded.
C28_BestOfSucceeded ==
    (fbpc = "returned") =>
       IF Succeeded = {} THEN fbResult = NoFitFound
       ELSE \E k \in Succeeded :
               /\ fbResult.func = <<k>>
               /\ fbResult.params = <<k>>
               /\ fbResult.covar = <<k>>
               /\ fbResult.chi = fbFuncs[k].chi
               /\ \A j \in Succeeded : fbFuncs[k].chi <= fbFuncs[j].chi

\* ------------------------------------------------------------------------
\* foil_count_time without background; get_peak_windows and the neighbours
\* ------------------------------------------------------------------------

\* C29: with background = 0 and the other arguments in range, the call
\* returns the sentinel pair (1E99, 1E99), whatever the activity, the
\* efficiency and sigma; a call with arguments in range that returns a time
\* below the sentinel had background > 0.
C29_NoBackgroundGivesSentinel ==
    /\ (fpc \in {"returned", "raised"} /\ ~OutOfRange(args)
        /\ args.background = 0)
       => (/\ fpc = "returned"
           /\ result = [exc |-> "none", tf |-> Sentinel, tb |-> Sentinel])
    /\ (fpc = "returned" /\ ~OutOfRange(args) /\ result.tf < Sentinel)
       => args.background > 0

\* a call with background = 0, a positive activity, efficiency and sigma,
\* that returned the sentinel pair in the first pass of the loop
C29_Witness ==
    /\ fpc = "returned"
    /\ args.background = 0
    /\ args.sigma > 0 /\ args.init > 0 /\ args.efficiency > 0
    /\ ~OutOfRange(args)
    /\ passes = 1
    /\ result.tf = Sentinel /\ result.tb = Sentinel

\* the distance between the k-th peak and the next one
Gap(k) == ch[k + 1] - ch[k]

\* C30: when the distance d between two adjacent peaks is at least
\* minWindow + peakWidth, the sides of their windows that face each other
\* are at most d - peakWidth wide, so neither window contains the other
\* peak; a side as wide as d or wider is the floor of minWindow, with
\* d - peakWidth < minWindow.
C30_NeighbourKeptOut ==
    wpc = "returned" =>
        \A k \in 1..(Len(ch) - 1) :
            /\ Gap(k) >= minWindow + peakWidth
               => (/\ HalfHigh(k) <= Gap(k) - peakWidth
                   /\ HalfLow(k + 1) <= Gap(k) - peakWidth
                   /\ windows[ch[k]][2] < ch[k + 1]
                   /\ windows[ch[k + 1]][1] > ch[k])
            /\ HalfHigh(k) >= Gap(k)
               => (HalfHigh(k) = minWindow /\ Gap(k) - peakWidth < minWindow)
            /\ HalfLow(k + 1) >= Gap(k)
               => (HalfLow(k + 1) = minWindow /\ Gap(k) - peakWidth < minWindow)

\* three peaks: the first two at a distance of at least
\* minWindow + peakWidth but less than maxWindow, with shrunk sides that end
\* peakWidth short of the other peak; the last two so close that the floor
\* makes the windows pass the other peak
C30_Witness ==
    /\ wpc = "returned"
    /\ Len(ch) = 3
    /\ Gap(1) >= minWindow + peakWidth
    /\ Gap(1) < maxWindow
    /\ HalfHigh(1) = Gap(1) - peakWidth
    /\ HalfLow(2) = Gap(1) - peakWidth
    /\ Gap(2) < minWindow
    /\ HalfHigh(2) >= Gap(2)
    /\ HalfLow(3) >= Gap(2)

=============================================================================
